---- MODULE Spec2Model ----
(***************************************************************************)
(* Goal-programming solver of src/app.py: solve_goal_programming (the LP   *)
(* it builds and what it returns), the button handler that calls it and    *)
(* renders the result, the goal classification, and the sidebar/form logic *)
(* that preloads an example into st.session_state.                         *)
(*                                                                         *)
(* Numbers.  The program computes on floats; here every quantity is an     *)
(* exact rational.  Coefficients and weights are integers.  Right-hand     *)
(* sides are the integers rhs over the model's common denominator den, so  *)
(* a model with den = 20000 has right-hand sides that are multiples of     *)
(* 0.00005.  A returned value is a pair <<n, d>> in lowest terms, d > 0,   *)
(* or None (Python's None, PuLP's varValue of a variable it never set).    *)
(***************************************************************************)
EXTENDS Integers, Sequences, FiniteSets, TLC

VARIABLES
    args,       \* the arguments of solve_goal_programming (lines 11, 188-190)
    result,     \* what the last call returned or raised (line 48)
    shown,      \* what the button handler rendered (lines 191-224)
    prev,       \* history: the result before the last weight edit
    cw,         \* classification inputs: the weight pair of one goal
    cd,         \* classification inputs: the deviation pair of one goal
    cls,        \* classification output
    ui          \* the sidebar: selectbox, session_state and number inputs

vars == <<args, result, shown, prev, cw, cd, cls, ui>>

\* Python's None where a number is expected: no rational has denominator 0.
None == <<0, 0>>

Zero == <<0, 1>>

\* No exception.
NoError == "none"

-----------------------------------------------------------------------------
(* Exact arithmetic *)

Abs(a) == IF a < 0 THEN -a ELSE a

Max(a, b) == IF a >= b THEN a ELSE b

RECURSIVE Gcd(_, _)
Gcd(a, b) == IF b = 0 THEN a ELSE Gcd(b, a % b)

\* The rational n/d (d # 0) in lowest terms with a positive denominator.
Rat(n, d) ==
    LET g == Gcd(Abs(n), Abs(d))
        s == IF d < 0 THEN -1 ELSE 1
    IN  <<(s * n) \div g, (s * d) \div g>>

RatLe(p, q) == p[1] * q[2] <= q[1] * p[2]

RatLt(p, q) == p[1] * q[2] < q[1] * p[2]

RatAdd(p, q) == Rat(p[1] * q[2] + q[1] * p[2], p[2] * q[2])

RatSub(p, q) == Rat(p[1] * q[2] - q[1] * p[2], p[2] * q[2])

RatScale(k, p) == Rat(k * p[1], p[2])

RECURSIVE SumUpTo(_, _)
SumUpTo(f, n) == IF n = 0 THEN 0 ELSE f[n] + SumUpTo(f, n - 1)

\* sum(c[j-1] * x[j] for j in range(1, n + 1)): reads the first n entries of c.
Dot(c, x, n) == SumUpTo([j \in 1..n |-> c[j] * x[j]], n)

DropAt(s, k) == [i \in 1..(Len(s) - 1) |-> IF i < k THEN s[i] ELSE s[i + 1]]

Sign(j) == IF j % 2 = 0 THEN -1 ELSE 1

\* Determinant of a square matrix (a sequence of rows), by its first row.
RECURSIVE Det(_)
Det(M) ==
    IF Len(M) = 0 THEN 1
    ELSE LET n == Len(M)
             minor(j) == [i \in 1..(n - 1) |-> DropAt(M[i + 1], j)]
         IN  SumUpTo([j \in 1..n |->
                         IF M[1][j] = 0 THEN 0
                         ELSE Sign(j) * M[1][j] * Det(minor(j))], n)

ReplaceCol(M, j, b) ==
    [i \in 1..Len(M) |-> [k \in 1..Len(M) |-> IF k = j THEN b[i] ELSE M[i][k]]]

RECURSIVE SortedSeq(_)
SortedSeq(S) ==
    IF S = {} THEN <<>>
    ELSE LET lo == CHOOSE a \in S : \A b \in S : a <= b
         IN  <<lo>> \o SortedSeq(S \ {lo})

-----------------------------------------------------------------------------
(* solve_goal_programming, lines 11-48: the linear program it builds *)

\* A lower bound of 1 in place of 0.
lowBound_one == 2 - 1

\* lowBound=0 of every LpVariable (lines 17-19).
lowBound == 0

\* What building the problem raises before prob.solve() is reached, or None:
\* obj_weights[i-1] (line 22), goal['coeffs'][j-1] and d_minus[i] (lines
\* 28-29) and constraint['coeffs'][j-1] (line 32) are unchecked subscripts.
BuildError(a) ==
    IF Len(a.obj_weights) < a.num_goals THEN "IndexError"
    ELSE IF \E i \in 1..Len(a.goals) :
                /\ Len(a.goals[i].coeffs) < a.num_vars
                /\ i - 1 <= a.num_goals
         THEN "IndexError"
    ELSE IF Len(a.goals) > a.num_goals THEN "KeyError"
    ELSE IF \E k \in 1..Len(a.constraints) :
                Len(a.constraints[k].coeffs) < a.num_vars
         THEN "IndexError"
    ELSE NoError

\* The left-hand side lpSum(coeffs[j-1] * x[j] for j in 1..num_vars) of a goal
\* or constraint (lines 28, 32): only the first num_vars coefficients are read.
Expression(row, n) == [j \in 1..n |-> row.coeffs[j]]

\* x[j] is part of the problem only where some expression gives it a nonzero
\* coefficient: PuLP drops a term whose coefficient is 0, and a variable that
\* occurs nowhere in the problem is never handed to the solver.
InProblem(a, j) ==
    \/ \E i \in 1..Len(a.goals) : a.goals[i].coeffs[j] # 0
    \/ \E k \in 1..Len(a.constraints) : a.constraints[k].coeffs[j] # 0

\* The sign of d_minus[i] and of d_plus[i] in goal i's equality (line 29):
\* expression + d_minus[i] - d_plus[i] == rhs.
MinusSign == 1

PlusSign == -1

\* A constraint's relation (lines 33-38): anything but '<=' and '>=' is '=='.
Holds(type, lhs, rhs) ==
    IF type = "<=" THEN lhs <= rhs
    ELSE IF type = ">=" THEN lhs >= rhs
    ELSE lhs = rhs

-----------------------------------------------------------------------------
(* prob.solve(), line 40: the simplex solver behind PuLP.  It returns a     *)
(* basic optimal solution (a vertex of the feasible region) when there is  *)
(* one, and reports Infeasible or Unbounded otherwise.  The vertices are   *)
(* enumerated exactly.  In a basic solution d_minus[i] and d_plus[i] are   *)
(* never both basic (their columns are opposite), so a vertex is fixed by  *)
(* its x, and x by num_vars independent equations among: a goal met        *)
(* exactly, a constraint that is tight, a variable at its lower bound.     *)

Unit(j, n) == [k \in 1..n |-> IF k = j THEN 1 ELSE 0]

\* The equations a vertex can be fixed by, each as coeffs . x = rhs.
XRows(a) ==
    [i \in 1..Len(a.goals) |->
        [coeffs |-> Expression(a.goals[i], a.num_vars), rhs |-> a.goals[i].rhs]]
    \o [k \in 1..Len(a.constraints) |->
        [coeffs |-> Expression(a.constraints[k], a.num_vars),
         rhs |-> a.constraints[k].rhs]]
    \o [j \in 1..a.num_vars |->
        [coeffs |-> Unit(j, a.num_vars), rhs |-> lowBound * a.den]]

SubsetsOfSize(n, k) == {S \in SUBSET (1..n) : Cardinality(S) = k}

\* The point x = X / (D * den), D > 0, fixed by the equations S (Cramer's
\* rule), with the deviations goal i's equality then forces:
\* MinusSign * d_minus[i] + PlusSign * d_plus[i] = rhs - expression, one of
\* the two at its lower bound.
PointOf(a, S) ==
    LET rows == XRows(a)
        idx  == SortedSeq(S)
        n    == a.num_vars
        A    == [i \in 1..n |-> rows[idx[i]].coeffs]
        b    == [i \in 1..n |-> rows[idx[i]].rhs]
        D    == Det(A)
        s    == IF D < 0 THEN -1 ELSE 1
        X    == [j \in 1..n |-> s * Det(ReplaceCol(A, j, b))]
        gap  == [i \in 1..a.num_goals |->
                    a.goals[i].rhs * s * D
                    - Dot(Expression(a.goals[i], n), X, n)]
    IN  [D  |-> s * D,
         x  |-> X,
         dm |-> [i \in 1..a.num_goals |->
                    lowBound * a.den * s * D
                    + Max(MinusSign * gap[i], 0)],
         dp |-> [i \in 1..a.num_goals |->
                    lowBound * a.den * s * D
                    + Max(PlusSign * gap[i], 0)]]

Points(a) ==
    LET rows == XRows(a)
        n    == a.num_vars
        regular(S) ==
            LET idx == SortedSeq(S)
            IN  Det([i \in 1..n |-> rows[idx[i]].coeffs]) # 0
    IN  {PointOf(a, S) : S \in {T \in SubsetsOfSize(Len(rows), n) : regular(T)}}

\* A point satisfies the bounds, every goal equality and every constraint.
Feasible(a, p) ==
    /\ \A j \in 1..a.num_vars : p.x[j] >= lowBound * a.den * p.D
    /\ \A i \in 1..a.num_goals :
          /\ p.dm[i] >= lowBound * a.den * p.D
          /\ p.dp[i] >= lowBound * a.den * p.D
          /\ Dot(Expression(a.goals[i], a.num_vars), p.x, a.num_vars)
                + MinusSign * p.dm[i] + PlusSign * p.dp[i]
             = a.goals[i].rhs * p.D
    /\ \A k \in 1..Len(a.constraints) :
          Holds(a.constraints[k].type,
                Dot(Expression(a.constraints[k], a.num_vars), p.x, a.num_vars),
                a.constraints[k].rhs * p.D)

\* The objective with each weight on the other deviation of its goal.
Objective_swapped(a, p) ==
    SumUpTo([i \in 1..a.num_goals |->
                a.obj_weights[i].minus * p.dp[i]
                + a.obj_weights[i].plus * p.dm[i]], a.num_goals)

\* The objective with the weights left out.
Objective_unweighted(a, p) ==
    SumUpTo([i \in 1..a.num_goals |-> p.dm[i] + p.dp[i]], a.num_goals)

\* The objective (lines 21-25) at a point, times D * den.
Objective(a, p) ==
    SumUpTo([i \in 1..a.num_goals |->
                a.obj_weights[i].minus * p.dm[i]
                + a.obj_weights[i].plus * p.dp[i]], a.num_goals)

Vertices(a) == {p \in Points(a) : Feasible(a, p)}

OptimalVertices(a) ==
    LET V == Vertices(a)
    IN  {p \in V : \A q \in V : Objective(a, p) * q.D <= Objective(a, q) * p.D}

\* A direction along which the feasible region is unbounded and the objective
\* falls: both deviations of a goal growing together, or an edge direction r
\* of x (the kernel of num_vars - 1 of the equations), the deviations
\* following.
KernelOf(a, S) ==
    LET rows == XRows(a)
        idx  == SortedSeq(S)
        n    == a.num_vars
        A    == [i \in 1..(n - 1) |-> rows[idx[i]].coeffs]
    IN  [j \in 1..n |->
            Sign(j) * Det([i \in 1..(n - 1) |-> DropAt(A[i], j)])]

Directions(a) ==
    LET K == {KernelOf(a, S) :
                 S \in SubsetsOfSize(Len(XRows(a)), a.num_vars - 1)}
    IN  K \cup {[j \in 1..a.num_vars |-> -r[j]] : r \in K}

Recedes(a, r) ==
    /\ \E j \in 1..a.num_vars : r[j] # 0
    /\ \A j \in 1..a.num_vars : r[j] >= 0
    /\ \A k \in 1..Len(a.constraints) :
          Holds(a.constraints[k].type,
                Dot(Expression(a.constraints[k], a.num_vars), r, a.num_vars), 0)

Slope(a, r) ==
    SumUpTo([i \in 1..a.num_goals |->
                LET g == -Dot(Expression(a.goals[i], a.num_vars), r, a.num_vars)
                IN  a.obj_weights[i].minus * Max(MinusSign * g, 0)
                    + a.obj_weights[i].plus * Max(PlusSign * g, 0)],
            a.num_goals)

FallsForever(a) ==
    \/ \E i \in 1..a.num_goals :
          a.obj_weights[i].minus + a.obj_weights[i].plus < 0
    \/ \E r \in Directions(a) : Recedes(a, r) /\ Slope(a, r) < 0

\* pulp.LpStatus[prob.status] (line 42).
StatusOf(a) ==
    IF Vertices(a) = {} THEN "Infeasible"
    ELSE IF FallsForever(a) THEN "Unbounded"
    ELSE "Optimal"

-----------------------------------------------------------------------------
(* Lines 42-48: what solve_goal_programming returns *)

Value(n, a, p) == Rat(n, p.D * a.den)

\* pulp.value(prob.objective) (line 46): the weighted sum of the values of the
\* deviation variables that have a nonzero weight, None if one has no value.
ObjValue(a, dminus, dplus) ==
    IF \E i \in 1..a.num_goals :
          \/ a.obj_weights[i].minus # 0 /\ dminus[i] = None
          \/ a.obj_weights[i].plus # 0 /\ dplus[i] = None
    THEN None
    ELSE LET term(w, v) == IF w = 0 THEN <<0, 1>> ELSE RatScale(w, v)
             RECURSIVE total(_)
             total(i) ==
                 IF i = 0 THEN <<0, 1>>
                 ELSE RatAdd(total(i - 1),
                             RatAdd(term(a.obj_weights[i].minus, dminus[i]),
                                    term(a.obj_weights[i].plus, dplus[i])))
         IN  total(a.num_goals)

NoResult ==
    [ran |-> FALSE, raised |-> NoError, status |-> "none", solution |-> <<>>,
     dminus |-> <<>>, dplus |-> <<>>, obj_value |-> None]

Raised(e) == [NoResult EXCEPT !.raised = e]

\* The tuple of line 48 built from the variables' varValue (lines 43-45).
Returned(a, status, xs, dminus, dplus) ==
    [ran |-> TRUE, raised |-> NoError, status |-> status,
     solution |-> [j \in 1..a.num_vars |->
                      IF InProblem(a, j) THEN xs[j] ELSE None],
     dminus |-> dminus, dplus |-> dplus,
     obj_value |-> ObjValue(a, dminus, dplus)]

\* After an Optimal solve every variable of the problem holds the vertex.
ReturnedAt(a, p) ==
    Returned(a, "Optimal",
             [j \in 1..a.num_vars |-> Value(p.x[j], a, p)],
             [i \in 1..a.num_goals |-> Value(p.dm[i], a, p)],
             [i \in 1..a.num_goals |-> Value(p.dp[i], a, p)])

\* After any other status varValue is whatever the solver's last iterate
\* left: nothing, or numbers that need not satisfy anything.
LeftoverValues == {None, <<0, 1>>, <<1, 1>>}

ReturnedLeftover(a, status, v) ==
    Returned(a, status,
             [j \in 1..a.num_vars |-> v],
             [i \in 1..a.num_goals |-> v],
             [i \in 1..a.num_goals |-> v])

\* Every result one call of solve_goal_programming(a) can give.
SolveGoalProgramming(a) ==
    IF BuildError(a) # NoError THEN {Raised(BuildError(a))}
    ELSE LET status == StatusOf(a)
         IN  IF status = "Optimal"
             THEN {ReturnedAt(a, p) : p \in OptimalVertices(a)}
             ELSE {ReturnedLeftover(a, status, v) : v \in LeftoverValues}

-----------------------------------------------------------------------------
(* Lines 193-222: rendering *)

\* The tolerance 0.0001 of lines 206 and 208.
Tolerance == Rat(1, 10000)

\* The classification without the weight tests.
Classify_ignoringWeights(w, d_minus_val, d_plus_val) ==
    IF RatLt(Tolerance, d_minus_val) THEN "Shortfall"
    ELSE IF RatLt(Tolerance, d_plus_val) THEN "Excess"
    ELSE "Satisfied"

\* The classification with each weight tested against the other deviation.
Classify_crossed(w, d_minus_val, d_plus_val) ==
    IF w.minus > 0 /\ RatLt(Tolerance, d_plus_val) THEN "Shortfall"
    ELSE IF w.plus > 0 /\ RatLt(Tolerance, d_minus_val) THEN "Excess"
    ELSE "Satisfied"

\* Lines 206-211.
Classify(w, d_minus_val, d_plus_val) ==
    IF w.minus > 0 /\ RatLt(Tolerance, d_minus_val) THEN "Shortfall"
    ELSE IF w.plus > 0 /\ RatLt(Tolerance, d_plus_val) THEN "Excess"
    ELSE "Satisfied"

Idle ==
    [kind |-> "idle", status |-> "none", metrics |-> <<>>, goals |-> <<>>,
     objective |-> None]

RECURSIVE PrefixWithValue(_)
PrefixWithValue(s) ==
    IF s = <<>> \/ Head(s) = None THEN <<>>
    ELSE <<Head(s)>> \o PrefixWithValue(Tail(s))

\* A handler that shows the returned values whatever the status.
Render_showsValues(a, r) ==
    IF r.raised # NoError
    THEN [Idle EXCEPT !.kind = "exception", !.status = r.raised]
    ELSE [kind |-> IF r.status = "Optimal" THEN "optimal" ELSE "failed",
          status |-> r.status,
          metrics |-> r.solution,
          goals |-> <<>>,
          objective |-> r.obj_value]

\* What the handler of the button shows for a result r of the call (lines
\* 187-224).  Formatting None with :.4f raises TypeError, which the handler's
\* except turns into an error message, like an exception of the call itself.
Render(a, r) ==
    IF r.raised # NoError
    THEN [Idle EXCEPT !.kind = "exception", !.status = r.raised]
    ELSE IF r.status = "Optimal"
    THEN IF \E j \in 1..a.num_vars : r.solution[j] = None
         THEN [Idle EXCEPT !.kind = "exception", !.status = "TypeError",
                           !.metrics = PrefixWithValue(r.solution)]
         ELSE [kind |-> "optimal", status |-> r.status,
               metrics |-> r.solution,
               goals |-> [i \in 1..a.num_goals |->
                             Classify(a.obj_weights[i], r.dminus[i], r.dplus[i])],
               objective |-> r.obj_value]
    ELSE [Idle EXCEPT !.kind = "failed", !.status = r.status]

-----------------------------------------------------------------------------
(* The models solved *)

MaxVars == 2

MaxGoals == 2

MaxCons == 1

MaxCoef == 1

MaxRhs == 1

MaxWeight == 2

MaxEdits == 1

\* A model has at most MaxSize variables, goals and constraints in all.
MaxSize == 4

\* Right-hand sides are whole numbers, or multiples of 1/15000: below the
\* tolerance of the classification.
Dens == {1, 15000}

Types == {"<=", ">=", "=="}

\* The preset of lines 72-79 as the form passes it on.
Advertising ==
    [num_vars |-> 2, num_goals |-> 2, num_constraints |-> 2, den |-> 1,
     obj_weights |-> <<[minus |-> 2, plus |-> 0], [minus |-> 0, plus |-> 1]>>,
     goals |-> <<[coeffs |-> <<4, 8>>, rhs |-> 45],
                 [coeffs |-> <<8, 24>>, rhs |-> 100]>>,
     constraints |-> <<[coeffs |-> <<1, 0>>, type |-> "<=", rhs |-> 6],
                       [coeffs |-> <<1, 2>>, type |-> "<=", rhs |-> 10]>>]

\* One variable, one goal, and two constraints no x satisfies: x1 <= 1, x1 >= 5.
Conflicting ==
    [num_vars |-> 1, num_goals |-> 1, num_constraints |-> 2, den |-> 1,
     obj_weights |-> <<[minus |-> 1, plus |-> 1]>>,
     goals |-> <<[coeffs |-> <<1>>, rhs |-> 1]>>,
     constraints |-> <<[coeffs |-> <<1>>, type |-> "<=", rhs |-> 1],
                       [coeffs |-> <<1>>, type |-> ">=", rhs |-> 5]>>]

ModelsOf(n, g, c, dens, weights, gcoefs, grhs, ccoefs, crhs) ==
    {[num_vars |-> n, num_goals |-> g, num_constraints |-> c, den |-> d,
      obj_weights |-> w, goals |-> gs, constraints |-> cs] :
        d \in dens,
        w \in [1..g -> [minus : weights, plus : weights]],
        gs \in [1..g -> [coeffs : [1..n -> gcoefs], rhs : grhs]],
        cs \in [1..c -> [coeffs : [1..n -> ccoefs], type : Types, rhs : crhs]]}

\* Valid models: coefficient vectors of length num_vars, weights >= 0.
ValidModels(dens) ==
    UNION {ModelsOf(s[1], s[2], s[3], dens, 0..(MaxWeight - 1), 0..MaxCoef,
                    0..MaxRhs, (-MaxCoef)..MaxCoef, 0..MaxRhs) :
              s \in {t \in (1..MaxVars) \X (1..MaxGoals) \X (0..MaxCons) :
                        t[1] + t[2] + t[3] <= MaxSize}}
    \cup {Advertising, Conflicting}

NoPrev == [edits |-> 0, result |-> NoResult, obj_weights |-> <<>>]

InitClassification ==
    /\ cw = [minus |-> 0, plus |-> 0]
    /\ cd = <<None, None>>
    /\ cls = "none"

InitSolve ==
    /\ result = NoResult
    /\ shown = Idle
    /\ prev = NoPrev

InitRest ==
    /\ InitClassification
    /\ ui = "none"

Init ==
    /\ args \in ValidModels(Dens)
    /\ InitSolve
    /\ InitRest

\* The button (lines 185-224): one call, then the rendering of its result.
Resolver ==
    /\ result = NoResult
    /\ \E r \in SolveGoalProgramming(args) :
          /\ result' = r
          /\ shown' = Render(args, r)
    /\ UNCHANGED <<args, prev, cw, cd, cls, ui>>

\* A weight input is edited (lines 124-125): the script reruns with the button
\* not pressed, so nothing of the last result is shown.
EditWeight ==
    /\ result # NoResult
    /\ prev.edits < MaxEdits
    /\ \E i \in 1..args.num_goals, side \in {"minus", "plus"}, v \in 0..MaxWeight :
          /\ args.obj_weights[i][side] < v
          /\ args' = [args EXCEPT !.obj_weights[i][side] = v]
    /\ prev' = [edits |-> prev.edits + 1, result |-> result,
                obj_weights |-> args.obj_weights]
    /\ result' = NoResult
    /\ shown' = Idle
    /\ UNCHANGED <<cw, cd, cls, ui>>

Next == Resolver \/ EditWeight

Spec == Init /\ [][Next]_vars


-----------------------------------------------------------------------------
(* solve_goal_programming called with arguments nothing has validated: a   *)
(* coefficient vector or the weight list shorter or longer than it should  *)
(* be, a negative weight.                                                  *)

RawVectors(n) == UNION {[1..len -> 0..1] : len \in (n - 1)..(n + 1)}

RawModels(counts) ==
    {[num_vars |-> n, num_goals |-> 1, num_constraints |-> Len(cs), den |-> 1,
      obj_weights |-> w, goals |-> <<[coeffs |-> gc, rhs |-> 1]>>,
      constraints |-> cs] :
        n \in counts,
        w \in UNION {[1..len -> [minus : -1..1, plus : 0..1]] : len \in 0..2},
        gc \in UNION {RawVectors(m) : m \in counts},
        cs \in UNION {[1..c -> [coeffs : UNION {RawVectors(m) : m \in counts},
                                type : Types, rhs : {1}]] : c \in 0..1}}

InitRaw ==
    /\ args \in {a \in RawModels(1..MaxVars) :
                    /\ Len(a.goals[1].coeffs) \in (a.num_vars - 1)..(a.num_vars + 1)
                    /\ \A k \in 1..Len(a.constraints) :
                          Len(a.constraints[k].coeffs)
                              \in (a.num_vars - 1)..(a.num_vars + 1)}
    /\ InitSolve
    /\ InitRest

SpecRaw == InitRaw /\ [][Resolver]_vars

-----------------------------------------------------------------------------
(* The classification of lines 206-211 on its own *)

\* Deviations around the tolerance: 0, 2/3 of it, the tolerance, twice it, 1.
DeviationValues == {Rat(k, 30000) : k \in {0, 2, 3, 6, 30000}}

\* A deviation pair as an Optimal solve returns it: not both nonzero.
DeviationPairs ==
    {<<v, Zero>> : v \in DeviationValues} \cup {<<Zero, v>> : v \in DeviationValues}

InitClassify ==
    /\ cw \in [minus : -1..MaxWeight, plus : -1..MaxWeight]
    /\ cd \in DeviationPairs
    /\ cls = "none"
    /\ args = Advertising
    /\ InitSolve
    /\ ui = "none"

ClassifyGoal ==
    /\ cls = "none"
    /\ cls' = Classify(cw, cd[1], cd[2])
    /\ UNCHANGED <<args, result, shown, prev, cw, cd, ui>>

SpecClassify == InitClassify /\ [][ClassifyGoal]_vars


-----------------------------------------------------------------------------
(* Lines 61-181: the sidebar and the form.  Every interaction reruns the   *)
(* script: the preset of a newly selected example is stored in             *)
(* st.session_state (lines 70-95), the three number inputs are read (lines *)
(* 98-100) and the form is built with the stored vectors as defaults       *)
(* (lines 139-146, 164-171).  Of a stored vector only its length matters.   *)

MaxFormVars == 4

MaxFormGoals == 3

MaxFormCons == 2

Examples ==
    {"Modelo Personalizado", "Ej. 8.2-1: Agencia de Publicidad",
     "Ej. Admisión Universitaria"}

\* st.session_state after the keys are deleted (lines 92-95).
Cleared ==
    [set |-> FALSE, num_vars |-> 0, num_goals |-> 0, num_constraints |-> 0,
     goals |-> <<>>, constraints |-> <<>>]

\* st.session_state after line 70 found a new example_option.
Preload(example_option) ==
    IF example_option = "Ej. 8.2-1: Agencia de Publicidad"
    THEN [set |-> TRUE, num_vars |-> 2, num_goals |-> 2, num_constraints |-> 2,
          goals |-> <<2, 2>>, constraints |-> <<2, 2>>]
    ELSE IF example_option = "Ej. Admisión Universitaria"
    THEN [set |-> TRUE, num_vars |-> 3, num_goals |-> 5, num_constraints |-> 0,
          goals |-> <<3, 3, 3, 3, 3>>, constraints |-> <<>>]
    ELSE Cleared

\* st.session_state.get(key, default) of lines 98-100.
Get(ss, key, default) == IF ss.set THEN ss[key] ELSE default

\* A number input without a key is the same widget, and keeps what the user
\* entered, as long as its value= argument is the same; with another value=
\* it is a new widget showing that value.
NumberInput(w, value) == IF w.value = value THEN w ELSE [value |-> value, shown |-> value]

\* default_coeffs[j-1] for j in 1..num_vars (lines 145, 170), where
\* default_coeffs is the stored vector when there is one and [0.0]*num_vars
\* otherwise (lines 141-142, 166-167): whether some read is past the end.
ReadsPastEnd(stored, rows, num_vars) ==
    \E i \in 1..rows : i <= Len(stored) /\ stored[i] < num_vars

\* One run of the script up to line 181.
Run(u, example_option) ==
    LET ss == IF example_option # u.last_example
              THEN Preload(example_option) ELSE u.ss
        nv == NumberInput(u.num_vars, Get(ss, "num_vars", 2))
        ng == NumberInput(u.num_goals, Get(ss, "num_goals", 2))
        nc == NumberInput(u.num_constraints, Get(ss, "num_constraints", 0))
    IN  [example_option |-> example_option, last_example |-> example_option,
         ss |-> ss, num_vars |-> nv, num_goals |-> ng, num_constraints |-> nc,
         error |-> IF ReadsPastEnd(ss.goals, ng.shown, nv.shown)
                      \/ (nc.shown > 0
                          /\ ReadsPastEnd(ss.constraints, nc.shown, nv.shown))
                   THEN "IndexError" ELSE NoError]

\* A fresh session: nothing stored, no widget yet.
Fresh ==
    [example_option |-> "Modelo Personalizado", last_example |-> "",
     ss |-> Cleared, num_vars |-> [value |-> 2, shown |-> 2],
     num_goals |-> [value |-> 2, shown |-> 2],
     num_constraints |-> [value |-> 0, shown |-> 0], error |-> NoError]

InitForm ==
    /\ ui = Run(Fresh, "Modelo Personalizado")
    /\ args = Advertising
    /\ InitSolve
    /\ InitClassification

SelectExample ==
    /\ \E e \in Examples : e # ui.example_option /\ ui' = Run(ui, e)
    /\ UNCHANGED <<args, result, shown, prev, cw, cd, cls>>

SetNumVars ==
    /\ \E v \in 1..MaxFormVars :
          /\ v # ui.num_vars.shown
          /\ ui' = Run([ui EXCEPT !.num_vars.shown = v], ui.example_option)
    /\ UNCHANGED <<args, result, shown, prev, cw, cd, cls>>

SetNumGoals ==
    /\ \E v \in 1..MaxFormGoals :
          /\ v # ui.num_goals.shown
          /\ ui' = Run([ui EXCEPT !.num_goals.shown = v], ui.example_option)
    /\ UNCHANGED <<args, result, shown, prev, cw, cd, cls>>

SetNumConstraints ==
    /\ \E v \in 0..MaxFormCons :
          /\ v # ui.num_constraints.shown
          /\ ui' = Run([ui EXCEPT !.num_constraints.shown = v], ui.example_option)
    /\ UNCHANGED <<args, result, shown, prev, cw, cd, cls>>

NextForm == SelectExample \/ SetNumVars \/ SetNumGoals \/ SetNumConstraints

SpecForm == InitForm /\ [][NextForm]_vars

-----------------------------------------------------------------------------
(* What the claims speak of *)


HasValue(v) == v # None

Solved == result.ran /\ result.status = "Optimal"

\* sum_j coeffs[j] * x_j over the returned decision values, all of which
\* have a value.
RECURSIVE LhsUpTo(_, _, _)
LhsUpTo(coeffs, xs, n) ==
    IF n = 0 THEN Zero
    ELSE RatAdd(LhsUpTo(coeffs, xs, n - 1), RatScale(coeffs[n], xs[n]))

Rhs(a, row) == Rat(row.rhs, a.den)

\* w_minus * d_minus + w_plus * d_plus of goal i under the weights w.
Contribution(w, r, i) ==
    RatAdd(RatScale(w[i].minus, r.dminus[i]), RatScale(w[i].plus, r.dplus[i]))

\* C1: whenever the solve returns Optimal, every decision and deviation
\* variable has a value >= 0, every goal equality
\* sum_j coeff_ij * x_j + d_minus_i - d_plus_i = rhs_i holds and every hard
\* constraint holds under its operator.
C1_OptimalSatisfiesModel ==
    Solved =>
        /\ \A j \in 1..args.num_vars :
              HasValue(result.solution[j]) /\ RatLe(Zero, result.solution[j])
        /\ \A i \in 1..args.num_goals :
              /\ RatLe(Zero, result.dminus[i])
              /\ RatLe(Zero, result.dplus[i])
              /\ RatAdd(LhsUpTo(args.goals[i].coeffs, result.solution,
                                args.num_vars),
                        RatSub(result.dminus[i], result.dplus[i]))
                 = Rhs(args, args.goals[i])
        /\ \A k \in 1..args.num_constraints :
              LET lhs == LhsUpTo(args.constraints[k].coeffs, result.solution,
                                 args.num_vars)
                  rhs == Rhs(args, args.constraints[k])
              IN  IF args.constraints[k].type = "<=" THEN RatLe(lhs, rhs)
                  ELSE IF args.constraints[k].type = ">=" THEN RatLe(rhs, lhs)
                  ELSE lhs = rhs

\* C2 as claimed: the advertising model solves to Optimal with an objective
\* value of about 0.
C2_AdvertisingObjectiveZero ==
    (args = Advertising /\ result # NoResult) =>
        /\ result.status = "Optimal"
        /\ RatLe(result.obj_value, Tolerance)

\* C2 amended: the advertising model solves to Optimal with objective value
\* 10: the exposure goal falls short by 5 (weight 2) and the budget goal is
\* not exceeded.
C2_AdvertisingObjectiveTen ==
    (args = Advertising /\ result # NoResult) =>
        /\ result.status = "Optimal"
        /\ result.obj_value = <<10, 1>>
        /\ result.dminus[1] = <<5, 1>>
        /\ result.dplus[2] = Zero

C2_Witness == args = Advertising /\ Solved /\ shown.kind = "optimal"

\* Some combination of the hard constraints (y[k] times constraint k, y[k]
\* >= 0 for '<=', <= 0 for '>=') bounds a sum of x with no negative
\* coefficient from above by a negative number: no x >= 0 satisfies them all.
Multipliers(a) ==
    LET K == 2 * MaxCoef * MaxCoef
    IN  {y \in [1..a.num_constraints -> (-K)..K] :
            \A k \in 1..a.num_constraints :
                /\ a.constraints[k].type = "<=" => y[k] >= 0
                /\ a.constraints[k].type = ">=" => y[k] <= 0}

Contradictory(a) ==
    \E y \in Multipliers(a) :
        /\ \A j \in 1..a.num_vars :
              SumUpTo([k \in 1..a.num_constraints |->
                          y[k] * a.constraints[k].coeffs[j]],
                      a.num_constraints) >= 0
        /\ SumUpTo([k \in 1..a.num_constraints |-> y[k] * a.constraints[k].rhs],
                   a.num_constraints) < 0

AllNone(r) ==
    /\ \A j \in 1..Len(r.solution) : r.solution[j] = None
    /\ \A i \in 1..Len(r.dminus) : r.dminus[i] = None /\ r.dplus[i] = None

Rendered == shown.kind = "optimal"

\* C7 as claimed: a goal of an Optimal solution is classified Satisfied if
\* and only if its weighted deviation contribution is within the tolerance
\* of 0.
C7_SatisfiedIffNoContribution ==
    Rendered =>
        \A i \in 1..args.num_goals :
            shown.goals[i] = "Satisfied"
            <=> RatLe(Contribution(args.obj_weights, result, i), Tolerance)

\* C7 amended: a goal of an Optimal solution whose weighted deviation
\* contribution is exactly 0 is classified Satisfied, and a goal classified
\* Satisfied has every deviation that carries a positive weight within the
\* tolerance, so that its contribution is at most (w_minus + w_plus) times
\* the tolerance.
C7_SatisfiedBetweenZeroAndTolerance ==
    Rendered =>
        \A i \in 1..args.num_goals :
            LET w == args.obj_weights[i]
            IN  /\ Contribution(args.obj_weights, result, i) = Zero
                    => shown.goals[i] = "Satisfied"
                /\ shown.goals[i] = "Satisfied" =>
                    /\ w.minus > 0 => RatLe(result.dminus[i], Tolerance)
                    /\ w.plus > 0 => RatLe(result.dplus[i], Tolerance)
                    /\ RatLe(Contribution(args.obj_weights, result, i),
                             RatScale(w.minus + w.plus, Tolerance))

\* A goal shown Satisfied whose contribution is above the tolerance.
C7_Witness ==
    /\ Rendered
    /\ \E i \in 1..args.num_goals :
          /\ shown.goals[i] = "Satisfied"
          /\ RatLt(Tolerance, Contribution(args.obj_weights, result, i))

\* The goal and side whose weight the last edit raised.
Raised_(i, side) ==
    /\ prev.edits > 0
    /\ i \in 1..args.num_goals
    /\ prev.obj_weights[i][side] < args.obj_weights[i][side]

Compared == prev.edits > 0 /\ prev.result.status = "Optimal" /\ result.ran

\* C8 as claimed: with one weight of a goal raised and all else the same,
\* the goal's weighted contribution at the new optimum is never greater than
\* at the old one, and the model stays Optimal.
C8_ContributionNeverGrows ==
    Compared =>
        /\ result.status = "Optimal"
        /\ \A i \in 1..args.num_goals, side \in {"minus", "plus"} :
              Raised_(i, side) =>
                  RatLe(Contribution(args.obj_weights, result, i),
                        Contribution(prev.obj_weights, prev.result, i))

Deviation(r, i, side) == IF side = "minus" THEN r.dminus[i] ELSE r.dplus[i]

\* C8 amended: with one weight of a goal raised and all else the same, the
\* deviation that weight penalises is at the new optimum never greater than
\* at the old one, and the model stays Optimal; the weighted contribution
\* itself may grow.
C8_DeviationNeverGrows ==
    Compared =>
        /\ result.status = "Optimal"
        /\ \A i \in 1..args.num_goals, side \in {"minus", "plus"} :
              Raised_(i, side) =>
                  RatLe(Deviation(result, i, side),
                        Deviation(prev.result, i, side))

\* A raise after which the deviation fell while the contribution grew.
C8_Witness ==
    /\ Compared
    /\ result.status = "Optimal"
    /\ \E i \in 1..args.num_goals, side \in {"minus", "plus"} :
          /\ Raised_(i, side)
          /\ RatLt(Zero, Deviation(result, i, side))
          /\ RatLt(Contribution(prev.obj_weights, prev.result, i),
                   Contribution(args.obj_weights, result, i))

Mismatched(a) ==
    \/ \E i \in 1..Len(a.goals) : Len(a.goals[i].coeffs) # a.num_vars
    \/ \E k \in 1..Len(a.constraints) : Len(a.constraints[k].coeffs) # a.num_vars
    \/ Len(a.obj_weights) # Len(a.goals)

NegativeWeight(a) ==
    \E i \in 1..Len(a.obj_weights) :
        a.obj_weights[i].minus < 0 \/ a.obj_weights[i].plus < 0

\* C4: with a coefficient vector of a length other than num_vars, or a number
\* of weight pairs other than the number of goals, the build fails before
\* any solve attempt: the solver never runs and no solution is returned.
C4_MismatchFailsBeforeSolve ==
    (result # NoResult /\ Mismatched(args) /\ ~NegativeWeight(args)) =>
        /\ result.raised # NoError
        /\ ~result.ran
        /\ result.solution = <<>>

\* C5: with a negative weight component the build fails and the solver is
\* never invoked: the call yields no solver status.
C5_NegativeWeightFailsBeforeSolve ==
    (result # NoResult /\ NegativeWeight(args) /\ ~Mismatched(args)) =>
        /\ result.raised # NoError
        /\ ~result.ran
        /\ result.status = "none"

Shortfall(w, d) == w.minus > 0 /\ RatLt(Tolerance, d[1])

Excess(w, d) == w.plus > 0 /\ RatLt(Tolerance, d[2])

C10_FormNeverReadsPastEnd == ui.error = NoError

====
